---- MODULE Spec2Model ----
(***************************************************************************)
(* Temporal property-graph versioning engine: the Cypher queries of the    *)
(* repository, modelled on a property graph.                               *)
(*                                                                         *)
(*   nodes  : sequence of [labels, props]; a node's handle is its index.   *)
(*   rels   : sequence of [src, dst, type, props]; a relationship's        *)
(*            identity is its index (a graph may hold parallel edges).     *)
(*   props  : a function whose DOMAIN is the set of keys that are present; *)
(*            a missing key reads as Cypher's null.                        *)
(*                                                                         *)
(* Cypher's comparison operators are three-valued: a comparison with null  *)
(* is null, and WHERE / CASE WHEN treat null as "not true".                *)
(***************************************************************************)
EXTENDS Integers, Sequences, FiniteSets, TLC

VARIABLES
    nodes,      \* the store's nodes
    rels,       \* the store's relationships
    now,        \* the value timestamp() returns in the next query
    call,       \* the query that ran last, with its parameters
    result,     \* the rows the last version query returned
    tx,         \* per session: the open transaction of a version branch query
    search,     \* n.search of the node the dedup query runs on
    timestamp,  \* n.timestamp of that node
    chain,      \* x.value along a chain of LINKED_TO hops, start entity first
    average_difference,     \* what the chain query returned
    propsA,     \* PROPERTIES(a) of the diff query
    propsB,     \* PROPERTIES(b) of the diff query
    differingProperties,    \* what the diff query returned
    graph,      \* the nodes of the graph the bulk delete runs on
    stream,     \* rows of the bulk delete's outer query not yet batched
    batches,    \* the batches committed so far, in order
    mutations,  \* the nodes the inner statement ran on, one entry per run
    phase       \* of the bulk delete: "idle", "running", "done"

storeVars == <<nodes, rels, now, result>>
txVars    == <<tx>>
dedupVars == <<search, timestamp>>
chainVars == <<chain, average_difference>>
diffVars  == <<propsA, propsB, differingProperties>>
batchVars == <<graph, stream, batches, mutations, phase>>

vars == <<storeVars, call, txVars, dedupVars, chainVars, diffVars, batchVars>>

(***************************************************************************)
(* Bounds                                                                  *)
(***************************************************************************)
MaxTime == 4            \* queries per run (timestamp() is 0 .. MaxTime-1)

MaxCsvRows == 2         \* rows of one CSV file
MaxRels == 6            \* relationships in the store

Ids  == {"m1", "m2"}    \* lineage ids of the seeded :Node:Current entities
Vals == {"a", "b"}      \* values of the comparable fields
UKeys == {"u1", "u2"}   \* values of uniqueProperty in the CSV

Vals2 == {"a"}          \* values of the second CSV column

CsvRow == [uniqueProperty : UKeys, csvProperty1 : Vals, csvProperty2 : Vals2]
Csvs == UNION { [1..k -> CsvRow] : k \in 1..MaxCsvRows }

RECURSIVE SetToSeq(_)
SetToSeq(S) ==
    IF S = {} THEN << >>
    ELSE LET x == CHOOSE y \in S : TRUE IN <<x>> \o SetToSeq(S \ {x})

(***************************************************************************)
(* Property maps                                                           *)
(***************************************************************************)
NoProps == [k \in {} |-> 0]

Has(p, k) == k \in DOMAIN p

\* REMOVE x.k1, x.k2: the map without the keys
RemoveKeys(p, ks) == [k \in (DOMAIN p) \ ks |-> p[k]]

\* Cypher  x.k <> v  used as a predicate: true only when x.k is present and
\* differs from v (null <> v is null, which WHERE does not accept)
NeqTrue(p, k, v) == Has(p, k) /\ p[k] # v

HasLabels(n, ls) == ls \subseteq n.labels

(***************************************************************************)
(* The version branch query (src/unnamed/part_001)                         *)
(***************************************************************************)

\* a change check that tests = where the query tests <>
ChangeCheckInverted(n, newName, newEmail) ==
    \/ (Has(n.props, "name") /\ n.props["name"] = newName)
    \/ (Has(n.props, "email") /\ n.props["email"] = newEmail)

\* lines 3-6: MATCH (current:Node:Current {id: nodeId})
\*            WHERE current.name <> newName OR current.email <> newEmail
ChangeCheck(n, newName, newEmail) ==
    NeqTrue(n.props, "name", newName) \/ NeqTrue(n.props, "email", newEmail)

MatchCurrentById(ns, nodeId) ==
    { c \in 1..Len(ns) : /\ HasLabels(ns[c], {"Node", "Current"})
                         /\ Has(ns[c].props, "id")
                         /\ ns[c].props["id"] = nodeId }

MatchCurrent(ns, nodeId, newName, newEmail) ==
    { c \in MatchCurrentById(ns, nodeId) : ChangeCheck(ns[c], newName, newEmail) }

\* lines 10-11: REMOVE current:Current  SET current:Historical
RetireCurrent(n) == [n EXCEPT !.labels = (@ \ {"Current"}) \cup {"Historical"}]

\* line 14: CREATE (newNode:Node:Current {name, email, createdAt: timestamp()})
NewVersionNode(newName, newEmail, t) ==
    [labels |-> {"Node", "Current"},
     props  |-> ("name" :> newName @@ "email" :> newEmail @@ "createdAt" :> t)]

\* the version edge drawn old -> new
PreviousVersionRelReversed(newNode, current, t) ==
    [src |-> current, dst |-> newNode, type |-> "PREVIOUS_VERSION",
     props |-> ("from" :> t)]

\* line 17: CREATE (newNode)-[:PREVIOUS_VERSION {from: timestamp()}]->(current)
PreviousVersionRel(newNode, current, t) ==
    [src |-> newNode, dst |-> current, type |-> "PREVIOUS_VERSION",
     props |-> ("from" :> t)]

\* lines 21-22: MATCH (current)-[rel]->(other) WHERE NOT type(rel) = 'PREVIOUS_VERSION'
\* the matched relationships, in store order
OutgoingRels(rs, current) ==
    SelectSeq([i \in 1..Len(rs) |-> i],
              LAMBDA i : rs[i].src = current /\ rs[i].type # "PREVIOUS_VERSION")

\* lines 26-28: CREATE (newNode)-[newRel:RELTYPE {from: timestamp()}]->(other)
\*              SET newRel = properties(rel)       (replaces every property)
\*              REMOVE newRel.from, newRel.to
ClonedRel(rel, newNode, t) ==
    LET created  == [src |-> newNode, dst |-> rel.dst, type |-> "RELTYPE",
                     props |-> ("from" :> t)]
        replaced == [created EXCEPT !.props = rel.props]
    IN  [replaced EXCEPT !.props = RemoveKeys(@, {"from", "to"})]

\* a migration that moves the relationship to the new node instead of copying it
RECURSIVE CloneRelsMoving(_, _, _, _)
CloneRelsMoving(rs, rows, newNode, t) ==
    IF rows = << >> THEN rs
    ELSE LET rel == rs[Head(rows)]
             rs1 == IF rel.type = "RELTYPE"
                    THEN [rs EXCEPT ![Head(rows)] = ClonedRel(rel, newNode, t)]
                    ELSE rs
         IN  CloneRelsMoving(rs1, Tail(rows), newNode, t)

\* lines 25-29: FOREACH (ignoreMe IN CASE WHEN type(rel) = 'RELTYPE' THEN [1] ELSE [] END | ...)
RECURSIVE CloneRels(_, _, _, _)
CloneRels(rs, rows, newNode, t) ==
    IF rows = << >> THEN rs
    ELSE LET rel == rs[Head(rows)]
             rs1 == IF rel.type = "RELTYPE"
                    THEN Append(rs, ClonedRel(rel, newNode, t))
                    ELSE rs
         IN  CloneRels(rs1, Tail(rows), newNode, t)

\* lines 10-31 for one matched row `current`
BranchRow(st, current, newName, newEmail, t) ==
    LET ns1     == [st.nodes EXCEPT ![current] = RetireCurrent(@)]
        newNode == Len(ns1) + 1
        ns2     == Append(ns1, NewVersionNode(newName, newEmail, t))
        rs1     == Append(st.rels, PreviousVersionRel(newNode, current, t))
        rows    == OutgoingRels(rs1, current)
    IN  [nodes  |-> ns2,
         rels   |-> CloneRels(rs1, rows, newNode, t),
         \* line 31: RETURN newNode, one row per matched relationship
         result |-> st.result \o [i \in 1..Len(rows) |-> newNode]]

\* the query over every matched row
RECURSIVE BranchRows(_, _, _, _, _)
BranchRows(st, matched, newName, newEmail, t) ==
    IF matched = {} THEN st
    ELSE LET c == CHOOSE x \in matched : \A y \in matched : x <= y
         IN  BranchRows(BranchRow(st, c, newName, newEmail, t),
                        matched \ {c}, newName, newEmail, t)

VersionBranchQuery(ns, rs, nodeId, newName, newEmail, t) ==
    BranchRows([nodes |-> ns, rels |-> rs, result |-> << >>],
               MatchCurrent(ns, nodeId, newName, newEmail),
               newName, newEmail, t)

VersionBranch(nodeId, newName, newEmail) ==
    /\ now < MaxTime
    /\ LET out == VersionBranchQuery(nodes, rels, nodeId, newName, newEmail, now)
       IN  /\ nodes'  = out.nodes
           /\ rels'   = out.rels
           /\ result' = out.result
    /\ call' = [op |-> "versionBranch", id |-> nodeId,
                name |-> newName, email |-> newEmail]
    /\ now' = now + 1
    /\ UNCHANGED <<txVars, dedupVars, chainVars, diffVars, batchVars>>

(***************************************************************************)
(* The LOAD CSV versioning query (src/compare.sh, lines 73-95)             *)
(***************************************************************************)
NullNode == 0   \* the null an OPTIONAL MATCH binds when nothing matches

\* line 74: MERGE (n:YourLabel {uniqueProperty: row.uniqueProperty})
MergeMatch(ns, u) ==
    { n \in 1..Len(ns) : /\ "YourLabel" \in ns[n].labels
                         /\ Has(ns[n].props, "uniqueProperty")
                         /\ ns[n].props["uniqueProperty"] = u }

MergeCreate(u) == [labels |-> {"YourLabel"}, props |-> ("uniqueProperty" :> u)]

\* lines 73-75: the rows (n, row) after the MERGE, the CSV read line by line
RECURSIVE MergeRows(_, _, _)
MergeRows(ns, csv, rows) ==
    IF csv = << >> THEN [nodes |-> ns, rows |-> rows]
    ELSE LET row == Head(csv)
             m   == MergeMatch(ns, row.uniqueProperty)
         IN  IF m = {}
             THEN MergeRows(Append(ns, MergeCreate(row.uniqueProperty)), Tail(csv),
                            Append(rows, [n |-> Len(ns) + 1, row |-> row]))
             ELSE MergeRows(ns, Tail(csv),
                            rows \o [i \in 1..Cardinality(m) |->
                                        [n |-> SetToSeq(m)[i], row |-> row]])

\* line 76: OPTIONAL MATCH (n)-[r:PREVIOUS_VERSION]->(old:YourLabel_History)
HistoryRels(ns, rs, n) ==
    SelectSeq([i \in 1..Len(rs) |-> i],
              LAMBDA i : /\ rs[i].src = n
                         /\ rs[i].type = "PREVIOUS_VERSION"
                         /\ "YourLabel_History" \in ns[rs[i].dst].labels)

RECURSIVE OptionalMatchOld(_, _, _)
OptionalMatchOld(ns, rs, rows) ==
    IF rows = << >> THEN << >>
    ELSE LET h  == Head(rows)
             hr == HistoryRels(ns, rs, h.n)
             matched == IF hr = << >>
                        THEN << [n |-> h.n, row |-> h.row, old |-> NullNode] >>
                        ELSE [i \in 1..Len(hr) |->
                                 [n |-> h.n, row |-> h.row, old |-> rs[hr[i]].dst]]
         IN  matched \o OptionalMatchOld(ns, rs, Tail(rows))

\* lines 78-79: ORDER BY old.version DESC LIMIT 1, over the whole row stream.
\* A descending sort puts null first; rows with equal keys come in any order,
\* so the surviving row is any row no other row sorts strictly before.
VersionIsNull(ns, r) == r.old = NullNode \/ ~Has(ns[r.old].props, "version")

SortsBefore(ns, r1, r2) ==
    IF VersionIsNull(ns, r1) THEN ~VersionIsNull(ns, r2)
    ELSE /\ ~VersionIsNull(ns, r2)
         /\ ns[r1.old].props["version"] > ns[r2.old].props["version"]

LimitOne(ns, rows) ==
    { i \in 1..Len(rows) : \A j \in 1..Len(rows) : ~SortsBefore(ns, rows[j], rows[i]) }

\* lines 80-86: CASE WHEN old IS NULL OR (old.property1 <> row.csvProperty1 OR ...)
hasChanged(ns, r) ==
    \/ r.old = NullNode
    \/ NeqTrue(ns[r.old].props, "property1", r.row.csvProperty1)
    \/ NeqTrue(ns[r.old].props, "property2", r.row.csvProperty2)

\* lines 87-95 for the surviving row
ApplyCsvRow(ns, rs, r, t) ==
    LET branch == hasChanged(ns, r) /\ r.old # NullNode
        \* lines 88-89: REMOVE n:CurrentVersion, CREATE (n)-[:PREVIOUS_VERSION]->(old)
        ns1 == IF branch
               THEN [ns EXCEPT ![r.n].labels = @ \ {"CurrentVersion"}]
               ELSE ns
        rs1 == IF branch
               THEN Append(rs, [src |-> r.n, dst |-> r.old, type |-> "PREVIOUS_VERSION",
                                props |-> ("timestamp" :> t)])
               ELSE rs
        \* lines 92-95: SET n.property1, n.property2; SET n:CurrentVersion
        ns2 == [ns1 EXCEPT ![r.n].props =
                   ("property1" :> r.row.csvProperty1 @@
                    "property2" :> r.row.csvProperty2 @@ @),
                           ![r.n].labels = @ \cup {"CurrentVersion"}]
    IN  [nodes |-> ns2, rels |-> rs1]

LoadCsv(csv) ==
    /\ now < MaxTime
    /\ Len(rels) < MaxRels
    /\ LET merged == MergeRows(nodes, csv, << >>)
           rows   == OptionalMatchOld(merged.nodes, rels, merged.rows)
       IN  \E i \in LimitOne(merged.nodes, rows) :
              LET out == ApplyCsvRow(merged.nodes, rels, rows[i], now)
              IN  /\ nodes' = out.nodes
                  /\ rels'  = out.rels
    /\ result' = << >>
    /\ call' = [op |-> "loadCsv", csv |-> csv]
    /\ now' = now + 1
    /\ UNCHANGED <<txVars, dedupVars, chainVars, diffVars, batchVars>>

(***************************************************************************)
(* Initial stores: what the queries expect to find.  Nothing in the        *)
(* repository creates the first :Node:Current of a lineage, a domain       *)
(* relationship or a :YourLabel_History node, so a run starts from a store *)
(* that holds some of them, one Current entity per lineage id.             *)
(***************************************************************************)
SeedEntity(id) ==
    [labels |-> {"Node", "Current"},
     props  |-> ("id" :> id @@ "name" :> "a" @@ "email" :> "a" @@ "createdAt" :> 0)]

\* the target of the seeded domain relationships
SeedOther == [labels |-> {}, props |-> NoProps]

\* a :YourLabel node with one recorded history version
SeedVersioned ==
    [labels |-> {"YourLabel", "CurrentVersion"},
     props  |-> ("uniqueProperty" :> "u1" @@ "property1" :> "a" @@ "property2" :> "a")]

SeedHistory ==
    [labels |-> {"YourLabel_History"},
     props  |-> ("version" :> 1 @@ "property1" :> "a" @@ "property2" :> "a")]

\* domain relationships of the first seeded entity
SeedRelKinds ==
    << [type |-> "RELTYPE",   props |-> ("from" :> 0 @@ "weight" :> 1)],
       [type |-> "RELTYPE",   props |-> ("from" :> 0 @@ "to" :> 0 @@ "weight" :> 2)],
       [type |-> "LINKED_TO", props |-> ("from" :> 0)] >>

SeedStore(ids, nrel, hist) ==
    LET entities == [i \in 1..Cardinality(ids) |-> SeedEntity(SetToSeq(ids)[i])]
        other    == Len(entities) + 1
        n        == other + 1
        domain   == IF ids = {} THEN << >>
                    ELSE [i \in 1..nrel |->
                             [src |-> 1, dst |-> other,
                              type |-> SeedRelKinds[i].type,
                              props |-> SeedRelKinds[i].props]]
    IN  [nodes |-> entities \o <<SeedOther>>
                   \o (IF hist THEN <<SeedVersioned, SeedHistory>> ELSE << >>),
         rels  |-> domain
                   \o (IF hist
                       THEN << [src |-> n, dst |-> n + 1, type |-> "PREVIOUS_VERSION",
                                props |-> ("timestamp" :> 0)] >>
                       ELSE << >>)]

SeedStores ==
    { SeedStore(ids, nrel, hist) :
        ids \in SUBSET Ids, nrel \in 0..Len(SeedRelKinds), hist \in BOOLEAN }

InitStore ==
    /\ \E st \in SeedStores : nodes = st.nodes /\ rels = st.rels
    /\ now = 1
    /\ result = << >>

\* the parts of the state a specification does not use
IdleStore ==
    /\ nodes = << >>
    /\ rels = << >>
    /\ now = 1
    /\ result = << >>

Sessions == {1, 2}

IdleTx == tx = [s \in Sessions |-> [pc |-> "idle"]]

IdleDedup == search = << >> /\ timestamp = << >>

IdleChain == chain = << >> /\ average_difference = [status |-> "none"]

IdleDiff == propsA = NoProps /\ propsB = NoProps /\ differingProperties = {}

IdleBatch ==
    /\ graph = {}
    /\ stream = << >>
    /\ batches = << >>
    /\ mutations = << >>
    /\ phase = "idle"

NoCall == call = [op |-> "none"]

Init ==
    InitStore /\ NoCall /\ IdleTx /\ IdleDedup /\ IdleChain /\ IdleDiff /\ IdleBatch

Update ==
    \E nodeId \in Ids, newName \in Vals, newEmail \in Vals :
        VersionBranch(nodeId, newName, newEmail)

Load ==
    \E csv \in Csvs : LoadCsv(csv)

Next == Update \/ Load

\* every Version Manager update, by either query
Spec == Init /\ [][Next]_vars

\* the version branch query alone
SpecBranch == Init /\ [][Update]_vars

(***************************************************************************)
(* Two sessions running the version branch query at once.  Neo4j runs a    *)
(* query read-committed: the MATCH / WHERE of lines 3-6 reads without a    *)
(* lock, the first write (line 10) takes the node's write lock, waiting    *)
(* for any transaction that holds it, and the rows already matched are not *)
(* matched again.  The query takes no lock of its own and never retries.   *)
(***************************************************************************)

\* lines 2-7: the session reads the rows it will write to
TxMatch(s, nodeId, newName, newEmail) ==
    /\ now < MaxTime
    /\ tx[s].pc = "idle"
    /\ tx' = [tx EXCEPT ![s] =
                 [pc |-> "matched", id |-> nodeId, name |-> newName,
                  email |-> newEmail, t |-> now,
                  rows |-> MatchCurrent(nodes, nodeId, newName, newEmail)]]
    /\ now' = now + 1
    /\ call' = [op |-> "txMatch", session |-> s]
    /\ UNCHANGED <<nodes, rels, result>>
    /\ UNCHANGED <<dedupVars, chainVars, diffVars, batchVars>>

\* lines 9-31: the session writes for every row it matched, and commits
TxWrite(s) ==
    /\ tx[s].pc = "matched"
    /\ LET out == BranchRows([nodes |-> nodes, rels |-> rels, result |-> << >>],
                             tx[s].rows, tx[s].name, tx[s].email, tx[s].t)
       IN  /\ nodes'  = out.nodes
           /\ rels'   = out.rels
           /\ result' = out.result
    /\ tx' = [tx EXCEPT ![s] = [pc |-> "idle"]]
    /\ call' = [op |-> "txWrite", session |-> s]
    /\ UNCHANGED now
    /\ UNCHANGED <<dedupVars, chainVars, diffVars, batchVars>>

Match ==
    \E s \in Sessions, nodeId \in Ids, newName \in Vals, newEmail \in Vals :
        TxMatch(s, nodeId, newName, newEmail)

Write == \E s \in Sessions : TxWrite(s)

ConcurrentNext == Match \/ Write

SpecConcurrent == Init /\ [][ConcurrentNext]_vars

(***************************************************************************)
(* The search dedup query (src/search_clean.cy)                            *)
(* A text is a sequence of characters; list indexes are 0-based as in      *)
(* Cypher, so n.search[i] is search[i + 1].                                *)
(***************************************************************************)
Window == 60000

Abs(x) == IF x < 0 THEN -x ELSE x

\* range(0, size - 1)
Range0(size) == [k \in 1..size |-> k - 1]

\* a CONTAINS b
Contains(a, b) ==
    \E k \in 0..(Len(a) - Len(b)) : SubSeq(a, k + 1, k + Len(b)) = b

\* a window test with < where the query has <=
InWindowStrict(t1, t2) == Abs(t1 - t2) < Window

\* line 7: abs(n.timestamp[j] - searchTime) <= 60000
InWindow(t1, t2) == Abs(t1 - t2) <= Window

\* lines 4-7: any(j IN range(0, size(n.search) - 1) WHERE j <> i AND ...)
AnyContaining(srch, ts, i) ==
    \E j \in 0..(Len(srch) - 1) :
        /\ j # i
        /\ Contains(srch[j + 1], srch[i + 1])
        /\ InWindow(ts[j + 1], ts[i + 1])

\* a collect that reports 1-based positions where the rebuild reads 0-based ones
indexesToMergeOneBased(srch, ts) ==
    LET found == SelectSeq(Range0(Len(srch)), LAMBDA i : AnyContaining(srch, ts, i))
    IN  [k \in 1..Len(found) |-> found[k] + 1]

\* lines 2-8: UNWIND ... WHERE any(...) WITH n, collect(i) AS indexesToMerge
indexesToMerge(srch, ts) ==
    SelectSeq(Range0(Len(srch)), LAMBDA i : AnyContaining(srch, ts, i))

InList(x, list) == \E k \in 1..Len(list) : list[k] = x

\* lines 9-10: [index IN range(0, size(l) - 1) WHERE NOT index IN indexesToMerge | l[index]]
RECURSIVE KeepUnmerged(_, _, _)
KeepUnmerged(l, indexes, merged) ==
    IF indexes = << >> THEN << >>
    ELSE (IF InList(Head(indexes), merged) THEN << >> ELSE << l[Head(indexes) + 1] >>)
         \o KeepUnmerged(l, Tail(indexes), merged)

\* a query whose SET rebuilds n.search only
SearchCleanQuerySearchOnly(srch, ts) ==
    LET merged == indexesToMerge(srch, ts)
    IN  IF merged = << >>
        THEN [search |-> srch, timestamp |-> ts]
        ELSE [search    |-> KeepUnmerged(srch, Range0(Len(srch)), merged),
              timestamp |-> ts]

\* the query on one node; with no index to merge there is no row left for
\* the SET of line 9 and the node stays as it is
SearchCleanQuery(srch, ts) ==
    LET merged == indexesToMerge(srch, ts)
    IN  IF merged = << >>
        THEN [search |-> srch, timestamp |-> ts]
        ELSE [search    |-> KeepUnmerged(srch, Range0(Len(srch)), merged),
              timestamp |-> KeepUnmerged(ts, Range0(Len(ts)), merged)]

SearchClean ==
    /\ LET out == SearchCleanQuery(search, timestamp)
       IN  /\ search' = out.search
           /\ timestamp' = out.timestamp
    /\ call' = [op |-> "searchClean", search |-> search, timestamp |-> timestamp]
    /\ UNCHANGED <<storeVars, txVars, chainVars, diffVars, batchVars>>

MaxEntries == 3     \* entries of the multi-valued attribute

SearchTexts == { <<"a">>, <<"b">>, <<"a", "b">>, <<"b", "a">> }
SearchTimes == { 0, 60000, 60001 }

InitDedup ==
    \E k \in 0..MaxEntries :
        /\ search \in [1..k -> SearchTexts]
        /\ timestamp \in [1..k -> SearchTimes]

DedupInit ==
    IdleStore /\ NoCall /\ IdleTx /\ InitDedup /\ IdleChain /\ IdleDiff /\ IdleBatch

SpecDedup == DedupInit /\ [][SearchClean]_vars

(***************************************************************************)
(* The chain average_difference query (src/temp.cy, lines 1-5), run on a   *)
(* linear chain: node k (1-based) has value chain[k] and a LINKED_TO       *)
(* relationship to node k + 1.                                             *)
(***************************************************************************)

\* line 1: MATCH (n)-[:LINKED_TO*]->(m), one row per path of one hop or more
ChainPairs(c) == { <<n, m>> \in (1..Len(c)) \X (1..Len(c)) : n < m }

\* line 2: [(n)-[:LINKED_TO*]->(x) | x.value], the value at the end of every
\* path that starts at n, shortest path first: the nodes after n
PathValues(c, n) == SubSeq(c, n + 1, Len(c))

\* line 3: [i IN range(0, chain_length - 2) | abs(values[i] - values[i + 1])]
Differences(values) ==
    [k \in 1..(IF Len(values) >= 2 THEN Len(values) - 1 ELSE 0) |->
        Abs(values[k] - values[k + 1])]

\* line 4: reduce(total = 0, d in differences | total + d)
RECURSIVE Reduce(_)
Reduce(differences) ==
    IF differences = << >> THEN 0
    ELSE Head(differences) + Reduce(Tail(differences))

\* line 3: the variables bound after WITH n, m, values, size(values) as
\* chain_length, [...] as differences
Line3Row(c, n, m) ==
    LET values == PathValues(c, n)
    IN  [n |-> n, m |-> m, values |-> values, chain_length |-> Len(values),
         differences |-> Differences(values)]

\* line 4: WITH n, m, reduce(...) as total_difference carries on n, m and
\* total_difference only
Line4Row(row) ==
    [n |-> row.n, m |-> row.m, total_difference |-> Reduce(row.differences)]

\* line 5: total_difference / (CASE WHEN chain_length > 1 THEN chain_length - 1
\* ELSE 1 END); both operands are integers, so Cypher divides as integers
Divide(total_difference, chain_length) ==
    total_difference \div (IF chain_length > 1 THEN chain_length - 1 ELSE 1)

\* the variables line 4 leaves in scope, and those line 5 reads
Line4Variables == {"n", "m", "total_difference"}
Line5Variables == {"n", "m", "total_difference", "chain_length"}

\* line 5 reads chain_length, which line 4 did not carry on: Cypher rejects
\* the query ("Variable `chain_length` not defined") before it reads any data
ChainQuery(c) ==
    LET rows == { Line4Row(Line3Row(c, p[1], p[2])) : p \in ChainPairs(c) }
    IN  IF ~(Line5Variables \subseteq Line4Variables)
        THEN [status |-> "error", rows |-> {}]
        ELSE [status |-> "ok",
              rows |-> { [n |-> r.n, m |-> r.m,
                          average_difference |->
                              Divide(r.total_difference, r.chain_length)] : r \in rows }]

RunChainQuery ==
    /\ call.op = "none"
    /\ average_difference' = ChainQuery(chain)
    /\ call' = [op |-> "chainQuery"]
    /\ UNCHANGED chain
    /\ UNCHANGED <<storeVars, txVars, dedupVars, diffVars, batchVars>>

MaxChain == 4       \* entities of a chain
ChainValues == {9, 10, 12}

InitChain ==
    /\ \E k \in 0..MaxChain : chain \in [1..k -> ChainValues]
    /\ average_difference = [status |-> "none"]

ChainInit ==
    IdleStore /\ NoCall /\ IdleTx /\ IdleDedup /\ InitChain /\ IdleDiff /\ IdleBatch

SpecChain == ChainInit /\ [][RunChainQuery]_vars

(***************************************************************************)
(* The differingProperties query (src/temp.cy, lines 7-10)                 *)
(***************************************************************************)

\* a comparison in which a key missing from propsB counts as a difference
DiffersTwoValued(pA, pB, k) == ~Has(pB, k) \/ pB[k] # pA[k]

\* line 10: WHERE propsA[k] <> propsB[k]; null when propsB has no k
DiffersTrue(pA, pB, k) == NeqTrue(pB, k, pA[k])

\* line 10: [k IN KEYS(propsA) WHERE propsA[k] <> propsB[k] | k]; a map has
\* each key once and KEYS lists them in no specified order: a set
DiffQuery(pA, pB) == { k \in DOMAIN pA : DiffersTrue(pA, pB, k) }

RunDiffQuery ==
    /\ call.op = "none"
    /\ differingProperties' = DiffQuery(propsA, propsB)
    /\ call' = [op |-> "diffQuery"]
    /\ UNCHANGED <<propsA, propsB>>
    /\ UNCHANGED <<storeVars, txVars, dedupVars, chainVars, batchVars>>

DiffKeys == {"x", "y", "z"}
DiffValues == {1, 2, 3}

\* line 7: a and b are matched by their identifier, which is a property too
DiffProps(identifier) ==
    { ("identifier" :> identifier) @@ p :
        p \in UNION { [ks -> DiffValues] : ks \in SUBSET DiffKeys } }

InitDiff ==
    /\ propsA \in DiffProps("value1")
    /\ propsB \in DiffProps("value2")
    /\ differingProperties = {}

DiffInit ==
    IdleStore /\ NoCall /\ IdleTx /\ IdleDedup /\ IdleChain /\ InitDiff /\ IdleBatch

SpecDiff == DiffInit /\ [][RunDiffQuery]_vars

(***************************************************************************)
(* The bulk delete (src/ahh.cy, lines 1-5):                                *)
(*   CALL apoc.periodic.iterate("MATCH (n) RETURN n", "DETACH DELETE n",   *)
(*        {batchSize: 500, iterateList: true, parallel: false})            *)
(* The outer query runs once and its rows are consumed batchSize at a      *)
(* time; each batch runs the inner statement on its rows in a transaction  *)
(* of its own, one batch after the other.                                  *)
(***************************************************************************)
batchSize == 500

\* line 2: MATCH (n) RETURN n, every node once (in no specified order; the
\* model streams them by handle, the graph holding handles 1..N at the call)
OuterQuery(g) == [k \in 1..Cardinality(g) |-> k]

\* line 3: DETACH DELETE n for every n of the batch (the relationships of a
\* deleted node go with it; the model keeps the nodes only)
DetachDelete(g, batch) == g \ { batch[k] : k \in 1..Len(batch) }

\* a batch that leaves its last row in the stream
RestOfStreamOffByOne(rows, taken) == SubSeq(rows, taken, Len(rows))

\* the rows left once a batch is taken
RestOfStream(rows, taken) == SubSeq(rows, taken + 1, Len(rows))

Min(a, b) == IF a <= b THEN a ELSE b

\* line 1: the call starts and the outer query runs
Iterate ==
    /\ phase = "idle"
    /\ stream' = OuterQuery(graph)
    /\ phase' = "running"
    /\ call' = [op |-> "iterate", matched |-> graph]
    /\ UNCHANGED <<graph, batches, mutations>>
    /\ UNCHANGED <<storeVars, txVars, dedupVars, chainVars, diffVars>>

\* one batch: up to batchSize rows of the stream, deleted in one transaction
RunBatch ==
    /\ phase = "running"
    /\ stream # << >>
    /\ LET taken == Min(batchSize, Len(stream))
           batch == SubSeq(stream, 1, taken)
       IN  /\ graph' = DetachDelete(graph, batch)
           /\ mutations' = mutations \o batch
           /\ batches' = Append(batches, batch)
           /\ stream' = RestOfStream(stream, taken)
    /\ UNCHANGED <<phase, call>>
    /\ UNCHANGED <<storeVars, txVars, dedupVars, chainVars, diffVars>>

\* the stream is exhausted: the call returns
Finish ==
    /\ phase = "running"
    /\ stream = << >>
    /\ phase' = "done"
    /\ UNCHANGED <<graph, stream, batches, mutations, call>>
    /\ UNCHANGED <<storeVars, txVars, dedupVars, chainVars, diffVars>>

MaxMatched == 1237      \* nodes in the graph when the call starts

\* N nodes, handles 1..N
InitBatch ==
    /\ \E N \in 0..MaxMatched :
          graph = 1..N
    /\ mutations = << >>
    /\ stream = << >>
    /\ batches = << >>
    /\ phase = "idle"

BatchInit ==
    IdleStore /\ NoCall /\ IdleTx /\ IdleDedup /\ IdleChain /\ IdleDiff /\ InitBatch

BatchNext == Iterate \/ RunBatch \/ Finish

SpecBatch == BatchInit /\ [][BatchNext]_vars

(***************************************************************************)
(* Vocabulary of the claims                                                *)
(***************************************************************************)
IsCurrent(n) == "Current" \in n.labels \/ "CurrentVersion" \in n.labels

IsHistorical(n) ==
    /\ ~IsCurrent(n)
    /\ ("Historical" \in n.labels \/ "YourLabel_History" \in n.labels)

IsEntity(n) == n.labels \cap {"Node", "YourLabel", "YourLabel_History"} # {}

\* two entities are versions of one another when a PREVIOUS_VERSION edge joins
\* them or they carry the same lineage key
SameKey(a, b, k) == Has(a.props, k) /\ Has(b.props, k) /\ a.props[k] = b.props[k]

Linked(ns, rs, a, b) ==
    \/ \E i \in 1..Len(rs) : /\ rs[i].type = "PREVIOUS_VERSION"
                             /\ {rs[i].src, rs[i].dst} = {a, b}
    \/ SameKey(ns[a], ns[b], "id")
    \/ SameKey(ns[a], ns[b], "uniqueProperty")

RECURSIVE Closure(_, _, _)
Closure(ns, rs, S) ==
    LET T == S \cup { b \in 1..Len(ns) : \E a \in S : Linked(ns, rs, a, b) }
    IN  IF T = S THEN S ELSE Closure(ns, rs, T)

Lineage(ns, rs, e) == Closure(ns, rs, {e})

Entities(ns) == { e \in 1..Len(ns) : IsEntity(ns[e]) }

PreviousVersionInto(rs, old) ==
    { i \in 1..Len(rs) : rs[i].type = "PREVIOUS_VERSION" /\ rs[i].dst = old }

PreviousVersionFrom(rs, new) ==
    { i \in 1..Len(rs) : rs[i].type = "PREVIOUS_VERSION" /\ rs[i].src = new }

\* the step just taken ran the version branch query for a lineage whose
\* Current entity was `old`
BranchCall(old) ==
    /\ call'.op = "versionBranch"
    /\ MatchCurrentById(nodes, call'.id) = {old}

Differs(old) ==
    \/ nodes[old].props["name"] # call'.name
    \/ nodes[old].props["email"] # call'.email

(***************************************************************************)
(* C1. In every reachable state, each lineage that has an entity has       *)
(* exactly one Current entity and all its other entities are Historical.   *)
(***************************************************************************)
C1_OneCurrentPerLineage ==
    \A e \in Entities(nodes) :
        LET L == Lineage(nodes, rels, e)
        IN  /\ Cardinality({ x \in L : IsCurrent(nodes[x]) }) = 1
            /\ \A x \in L : IsCurrent(nodes[x]) \/ IsHistorical(nodes[x])

(***************************************************************************)
(* C2. An update whose comparable fields equal those of the lineage's      *)
(* Current entity changes neither nodes nor relationships, and the same    *)
(* update applied a second time in a row changes nothing.                  *)
(***************************************************************************)
C2_UnchangedUpdateIsNoOp ==
    [][ /\ \A old \in 1..Len(nodes) :
              (BranchCall(old) /\ ~Differs(old)) => (nodes' = nodes /\ rels' = rels)
        /\ (call.op = "versionBranch" /\ call' = call)
              => (nodes' = nodes /\ rels' = rels) ]_vars

\* the last update named a lineage whose Current entity already had the
\* incoming fields (only a seeded entity carries an id, so it was there before)
C2_Witness ==
    /\ call.op = "versionBranch"
    /\ \E c \in MatchCurrentById(nodes, call.id) :
          /\ nodes[c].props["name"] = call.name
          /\ nodes[c].props["email"] = call.email

AllowList == {"RELTYPE"}

C4_CarryForwardStamped ==
    [][ \A old \in 1..Len(nodes) :
          (BranchCall(old) /\ Differs(old)) =>
             \A i \in 1..Len(rels) :
                (rels[i].src = old /\ rels[i].type \in AllowList) =>
                   \E j \in (Len(rels) + 1)..Len(rels') :
                      /\ rels'[j].src = Len(nodes) + 1
                      /\ rels'[j].dst = rels[i].dst
                      /\ rels'[j].type = rels[i].type
                      /\ RemoveKeys(rels'[j].props, {"from", "to"})
                            = RemoveKeys(rels[i].props, {"from", "to"})
                      /\ Has(rels'[j].props, "from")
                      /\ rels'[j].props["from"] = now ]_vars

(***************************************************************************)
(* C5. The chain-weighted difference of a chain v[0..n-1] is the exact     *)
(* quotient of the sum of |v[i] - v[i+1]| by max(1, n - 1), and the        *)
(* computation never fails.                                                *)
(***************************************************************************)
RECURSIVE SumAbsSteps(_)
SumAbsSteps(v) ==
    IF Len(v) < 2 THEN 0 ELSE Abs(v[1] - v[2]) + SumAbsSteps(Tail(v))

C5_ExactMeanStep ==
    call.op = "chainQuery" =>
        /\ average_difference.status = "ok"
        /\ Len(chain) >= 2 =>
              \E r \in average_difference.rows :
                  /\ r.n = 1
                  /\ r.m = Len(chain)
                  /\ r.average_difference * (Len(chain) - 1) = SumAbsSteps(chain)

(***************************************************************************)
(* C6. The pairwise property diff returns exactly the keys present in both *)
(* property maps whose values differ; a key present on one side only is    *)
(* never returned.                                                         *)
(***************************************************************************)
C6_DiffIsCommonKeysThatDiffer ==
    call.op = "diffQuery" =>
        differingProperties =
            { k \in (DOMAIN propsA) \cap (DOMAIN propsB) : propsA[k] # propsB[k] }

\* the diff ran on maps with a key on either side only, an equal common key
\* and a differing one
C6_Witness ==
    /\ call.op = "diffQuery"
    /\ Has(propsA, "x") /\ ~Has(propsB, "x")
    /\ Has(propsB, "z") /\ ~Has(propsA, "z")
    /\ Has(propsA, "y") /\ Has(propsB, "y") /\ propsA["y"] # propsB["y"]
    /\ "y" \in differingProperties

(***************************************************************************)
(* C7. Windowed deduplication keeps exactly the indices i for which no     *)
(* j # i has values[j] containing values[i] with timestamps at most the    *)
(* window apart, judged on the original list, in their original order.     *)
(***************************************************************************)
RECURSIVE SortedSeq(_)
SortedSeq(S) ==
    IF S = {} THEN << >>
    ELSE LET x == CHOOSE y \in S : \A z \in S : y <= z
         IN  <<x>> \o SortedSeq(S \ {x})

Retained(values, timestamps) ==
    { i \in 1..Len(values) :
        ~ \E j \in 1..Len(values) :
              /\ j # i
              /\ Contains(values[j], values[i])
              /\ Abs(timestamps[i] - timestamps[j]) <= 60000 }

C7_DedupKeepsUndominated ==
    [][ call'.op = "searchClean" =>
          LET keep == SortedSeq(Retained(search, timestamp))
          IN  /\ Len(search') = Len(keep)
              /\ Len(timestamp') = Len(keep)
              /\ \A k \in 1..Len(keep) :
                    /\ search'[k] = search[keep[k]]
                    /\ timestamp'[k] = timestamp[keep[k]] ]_vars

\* a pass over three entries removed one that another contains within the
\* window and kept one that another contains outside the window
C7_Witness ==
    /\ call.op = "searchClean"
    /\ Len(call.search) = 3
    /\ Len(search) = 2
    /\ \E i, j \in 1..2 :
          /\ i # j
          /\ Contains(search[j], search[i])
          /\ Abs(timestamp[i] - timestamp[j]) > 60000

(***************************************************************************)
(* C8. One call of the batched executor on N matched entities with batch   *)
(* size B runs ceil(N / B) batches and stops; every batch but the last has *)
(* B entities, the batches are pairwise disjoint, and every matched entity *)
(* is mutated exactly once, never twice.                                   *)
(***************************************************************************)
SeqRange(q) == { q[k] : k \in 1..Len(q) }

CeilDiv(n, b) == (n + b - 1) \div b

C8_BatchesPartitionSelection ==
    /\ Cardinality(SeqRange(mutations)) = Len(mutations)
    /\ phase = "done" =>
          LET N == Cardinality(call.matched)
              B == Len(batches)
          IN  /\ B = CeilDiv(N, batchSize)
              /\ stream = << >>
              /\ \A k \in 1..(B - 1) : Len(batches[k]) = batchSize
              /\ B > 0 => Len(batches[B]) = N - batchSize * (B - 1)
              /\ \A j, k \in 1..B :
                    j < k => SeqRange(batches[j]) \cap SeqRange(batches[k]) = {}
              /\ SeqRange(mutations) = call.matched

\* the call of the example has returned: 1237 entities, batches of 500, 500, 237
C8_Witness ==
    /\ phase = "done"
    /\ Cardinality(call.matched) = 1237
    /\ Len(batches) = 3
    /\ Len(batches[1]) = 500 /\ Len(batches[2]) = 500 /\ Len(batches[3]) = 237

(***************************************************************************)
(* C9. With two updates running concurrently on one lineage id, no         *)
(* reachable state has two Current entities in a lineage or two            *)
(* PREVIOUS_VERSION edges pointing at the same entity.                     *)
(***************************************************************************)
C9_NoDoubleBranch ==
    /\ \A old \in 1..Len(nodes) : Cardinality(PreviousVersionInto(rels, old)) <= 1
    /\ \A e \in Entities(nodes) :
          Cardinality({ x \in Lineage(nodes, rels, e) : IsCurrent(nodes[x]) }) <= 1

(***************************************************************************)
(* C10. An update for a brand-new lineage (no entity, so no Current one)    *)
(* creates exactly one entity, Current and with the incoming properties,   *)
(* which a later update for the same lineage id finds as the lineage's     *)
(* Current.                                                                *)
(***************************************************************************)
CurrentByKey(ns, u) == { n \in MergeMatch(ns, u) : IsCurrent(ns[n]) }

NodesById(ns, id) ==
    { n \in 1..Len(ns) : Has(ns[n].props, "id") /\ ns[n].props["id"] = id }

C10_FirstVersionCreated ==
    [][ /\ (call'.op = "versionBranch" /\ NodesById(nodes, call'.id) = {}) =>
              LET new == Len(nodes) + 1
              IN  /\ Len(nodes') = new
                  /\ IsCurrent(nodes'[new])
                  /\ nodes'[new].props["name"] = call'.name
                  /\ nodes'[new].props["email"] = call'.email
                  /\ MatchCurrentById(nodes', call'.id) = {new}
        /\ (call'.op = "loadCsv" /\ Len(call'.csv) = 1
               /\ MergeMatch(nodes, call'.csv[1].uniqueProperty) = {}) =>
              LET new == Len(nodes) + 1
              IN  /\ Len(nodes') = new
                  /\ nodes'[new].props["property1"] = call'.csv[1].csvProperty1
                  /\ nodes'[new].props["property2"] = call'.csv[1].csvProperty2
                  /\ CurrentByKey(nodes', call'.csv[1].uniqueProperty) = {new} ]_vars

(***************************************************************************)
(* C11. After any sequence of updates the PREVIOUS_VERSION edges form a    *)
(* simple acyclic chain: no entity reaches itself through them and every   *)
(* entity has at most one outgoing PREVIOUS_VERSION edge.                  *)
(***************************************************************************)
PreviousVersionSteps(rs, S) ==
    { rs[i].dst : i \in { k \in 1..Len(rs) : /\ rs[k].type = "PREVIOUS_VERSION"
                                             /\ rs[k].src \in S } }

RECURSIVE Ancestors(_, _)
Ancestors(rs, S) ==
    LET T == S \cup PreviousVersionSteps(rs, S)
    IN  IF T = S THEN S ELSE Ancestors(rs, T)

C11_VersionChainSimple ==
    \A e \in 1..Len(nodes) :
        /\ Cardinality(PreviousVersionFrom(rels, e)) <= 1
        /\ e \notin Ancestors(rels, PreviousVersionSteps(rels, {e}))

(***************************************************************************)
(* C12. Every update returns the entity that holds Current for the lineage *)
(* after the call: the unchanged old entity when nothing changed, the new  *)
(* entity when a branch happened, whether or not old had outgoing domain   *)
(* edges to migrate.                                                       *)
(***************************************************************************)
Returned(rows, e) == rows # << >> /\ \A k \in 1..Len(rows) : rows[k] = e

C12_ReturnsCurrent ==
    [][ \A old \in 1..Len(nodes) :
          BranchCall(old) =>
             IF Differs(old)
             THEN Returned(result', Len(nodes) + 1)
             ELSE Returned(result', old) ]_vars

(***************************************************************************)
(* C13. Windowed deduplication keeps the two sequences parallel: when      *)
(* values and timestamps have the same length before the pass they have    *)
(* the same length after it, and both keep the same original indices, so   *)
(* every kept value is still paired with its own timestamp.                *)
(***************************************************************************)
Pick(l, keep) == [k \in 1..Len(keep) |-> l[keep[k]]]

C13_DedupKeepsPairs ==
    [][ (call'.op = "searchClean" /\ Len(search) = Len(timestamp)) =>
          /\ Len(search') = Len(timestamp')
          /\ \E K \in SUBSET (1..Len(search)) :
                /\ Len(search') = Cardinality(K)
                /\ \A k \in 1..Cardinality(K) :
                      /\ search'[k] = Pick(search, SortedSeq(K))[k]
                      /\ timestamp'[k] = Pick(timestamp, SortedSeq(K))[k] ]_vars

\* a pass over three entries with distinct timestamps removed two of them
\* and left one value with one timestamp
C13_Witness ==
    /\ call.op = "searchClean"
    /\ Len(call.search) = 3
    /\ Cardinality(SeqRange(call.timestamp)) = 3
    /\ Len(search) = 1
    /\ Len(timestamp) = 1

(***************************************************************************)
(* C14. A branch old -> new leaves every relationship that existed before  *)
(* as it was, so old keeps its outgoing domain edges (type, target and     *)
(* properties) and gains none; old's properties are unchanged; old's       *)
(* labels change from Current to Historical only, and old gains exactly    *)
(* one incoming PREVIOUS_VERSION edge.                                     *)
(***************************************************************************)
OutgoingFrom(rs, n) == { i \in 1..Len(rs) : rs[i].src = n }

C14_BranchLeavesOldIntact ==
    [][ \A old \in 1..Len(nodes) :
          (BranchCall(old) /\ Differs(old)) =>
             /\ Len(rels') >= Len(rels)
             /\ \A i \in 1..Len(rels) : rels'[i] = rels[i]
             /\ OutgoingFrom(rels', old) = OutgoingFrom(rels, old)
             /\ nodes'[old].props = nodes[old].props
             /\ nodes'[old].labels = (nodes[old].labels \ {"Current"}) \cup {"Historical"}
             /\ Cardinality(PreviousVersionInto(rels', old))
                   = Cardinality(PreviousVersionInto(rels, old)) + 1 ]_vars

\* a branch has just happened from an entity that has an outgoing allow-listed
\* relationship, which the new entity has a copy of
C14_Witness ==
    /\ call.op = "versionBranch"
    /\ \E i, j, k \in 1..Len(rels) :
          /\ rels[i].type = "PREVIOUS_VERSION"
          /\ rels[i].props = ("from" :> now - 1)
          /\ rels[j].src = rels[i].dst /\ rels[j].type = "RELTYPE"
          /\ rels[k].src = rels[i].src /\ rels[k].type = "RELTYPE"
          /\ rels[k].dst = rels[j].dst

(***************************************************************************)
(* C15. Windowed deduplication is idempotent: a pass run on the output of  *)
(* a pass removes nothing.                                                 *)
(***************************************************************************)
C15_DedupIdempotent ==
    [][ (call.op = "searchClean" /\ call'.op = "searchClean") =>
          (search' = search /\ timestamp' = timestamp) ]_vars

\* a pass has run that removed an entry and left more than one
C15_Witness ==
    /\ call.op = "searchClean"
    /\ Len(search) < Len(call.search)
    /\ Len(search) >= 2

(***************************************************************************)
(* C16. Windowed deduplication never loses an observation outright: the    *)
(* value of every entry of the input is a substring of the value of some   *)
(* entry that is kept, so a non-empty list never becomes empty.            *)
(***************************************************************************)
C16_DedupLosesNothing ==
    [][ call'.op = "searchClean" =>
          /\ \A i \in 1..Len(search) :
                \E k \in 1..Len(search') : Contains(search'[k], search[i])
          /\ search # << >> => search' # << >> ]_vars

====
